---- MODULE Spec2Model ----
(***************************************************************************)
(* VivoPaint (src/script.js): a browser image-masking tool.  The model     *)
(* follows the handlers registered in init(): tool and brush controls,     *)
(* image upload (FileReader -> Image -> onload), the stroke handlers on    *)
(* the mask canvas, clear mask, the asynchronous runGeneration and export. *)
(*                                                                         *)
(* The three canvases are modelled by their width and height attributes    *)
(* and by the RGBA value of the pixels at the positions in SamplePixels    *)
(* that lie inside the bitmap (a 2048-pixel-wide bitmap cannot be          *)
(* enumerated).  A pixel is <<r, g, b, a>>, each channel in 0..255.        *)
(* The 2D context of the mask canvas is modelled by its current path.      *)
(* Canvas operations follow the HTML Standard (canvas 2D context).         *)
(***************************************************************************)
EXTENDS Integers, Sequences, FiniteSets, TLC

VARIABLES
    tool,          \* state.tool
    brushSize,     \* state.brushSize
    isDrawing,     \* state.isDrawing
    imageLoaded,   \* state.imageLoaded
    hasResult,     \* state.hasResult
    imgDim,        \* <<width, height>> of els.imgCanvas
    maskDim,       \* <<width, height>> of els.maskCanvas
    resultDim,     \* <<width, height>> of els.resultCanvas
    imgData,       \* bitmap of els.imgCanvas at the sampled positions
    maskData,      \* bitmap of els.maskCanvas at the sampled positions
    resultData,    \* bitmap of els.resultCanvas at the sampled positions
    path,          \* current default path of els.ctxMask: sequence of points
    engine,        \* how the canvas implementation strokes a zero-length line
    loader,        \* els.loader is displayed
    resultShown,   \* els.resultCanvas is displayed
    maskOpacity,   \* els.maskCanvas.style.opacity (1 or 0)
    reading,       \* FileReader.readAsDataURL calls not yet answered
    decoding,      \* Image objects whose src is set and onload not yet run
    inFlight,      \* runGeneration calls suspended at the await
    fresh,         \* how many of them were called after the last img.onload
    out            \* what the last handler showed the user: alert or download

vars == <<tool, brushSize, isDrawing, imageLoaded, hasResult, imgDim, maskDim,
          resultDim, imgData, maskData, resultData, path, engine, loader,
          resultShown, maskOpacity, reading, decoding, inFlight, fresh, out>>

\* The fields of `state`, the DOM fields the handlers write and the pending
\* callbacks: everything but `out`, the handler's output to the user.
progVars == <<tool, brushSize, isDrawing, imageLoaded, hasResult, imgDim, maskDim,
              resultDim, imgData, maskData, resultData, path, engine, loader,
              resultShown, maskOpacity, reading, decoding, inFlight, fresh>>

-----------------------------------------------------------------------------
(* Bounds of the model *)

\* at most this many runGeneration calls are suspended at a time
MaxInFlight == 2
\* at most this many uploads are between the change event and img.onload
MaxUploads == 1

\* pixel positions whose values are tracked, <<x, y>>
SamplePixels == {<<0, 0>>, <<1, 0>>, <<1, 1>>}

\* image files the user can pick: original size and content
Files == { [w |-> 2,    h |-> 2, seed |-> 0],
           [w |-> 2048, h |-> 2, seed |-> 1],
           [w |-> 4096, h |-> 3, seed |-> 2],
           [w |-> 4096, h |-> 1, seed |-> 3] }

\* slider values, as the digit strings the input event carries
SliderValues == { <<2>>, <<3, 0>> }

\* prompt texts, as character sequences
Prompts == { <<>>, <<"a">> }

\* pointer positions of mouse events, relative to the top-left corner of the
\* mask canvas (negative: left of / above the canvas)
PointerOffsets == { <<0, 0>>, <<1, 1>>, <<-20, 1>> }

-----------------------------------------------------------------------------
(* Program constants *)

maxWidth == 2048
DefaultCanvasWidth == 300
DefaultCanvasHeight == 150
InitialBrushSize == 30
ShiftR == 50
ShiftG == 20
Bluish == 200
Modulus == 255
\* layout: position of the mask canvas in the viewport
RectLeft == 8
RectTop == 8

Transparent == <<0, 0, 0, 0>>
\* strokeStyle 'rgba(255, 50, 50, 1)'
BrushColor == <<255, 50, 50, 255>>

NoOutput == [kind |-> "none"]
AlertNoImage == [kind |-> "alert", msg |-> "Please upload an image first."]
AlertNoPrompt == [kind |-> "alert", msg |-> "Please enter a prompt describing the change."]
AlertFailed == [kind |-> "alert", msg |-> "AI Generation failed. Check console."]

-----------------------------------------------------------------------------
(* Bitmaps *)

\* the sampled positions that lie inside a w x h bitmap
Tracked(dim) == { p \in SamplePixels : p[1] < dim[1] /\ p[2] < dim[2] }

\* a freshly (re)sized canvas: transparent black
Blank(dim) == [p \in Tracked(dim) |-> Transparent]

Palette == << <<0, 0, 0, 255>>, <<204, 234, 7, 255>>,
              <<205, 235, 200, 128>>, <<255, 255, 255, 255>> >>

\* the pixels drawImage(img, 0, 0, finalW, finalH) leaves on a blank canvas
\* of size dim: the decoded (and resampled) content of the file
Decoded(seed, dim) ==
    [p \in Tracked(dim) |-> Palette[((p[1] + 2 * p[2] + seed) % 4) + 1]]

-----------------------------------------------------------------------------
(* Canvas 2D context operations (HTML Standard) *)

\* globalCompositeOperation 'source-over' of source pixel s on destination d
SourceOver(s, d) ==
    LET ao == s[4] + (d[4] * (255 - s[4])) \div 255
        mix(i) == IF ao = 0 THEN 0
                  ELSE (s[i] * s[4] + (d[i] * d[4] * (255 - s[4])) \div 255) \div ao
    IN  IF s[4] = 255 THEN s
        ELSE IF d[4] = 0 THEN (IF s[4] = 0 THEN Transparent ELSE s)
        ELSE <<mix(1), mix(2), mix(3), ao>>

\* globalCompositeOperation 'destination-out': the destination is kept only
\* where the source is transparent
DestinationOut(s, d) ==
    LET ao == (d[4] * (255 - s[4])) \div 255
    IN  IF ao = 0 THEN Transparent ELSE <<d[1], d[2], d[3], ao>>

Composite(gco, s, d) ==
    IF gco = "source-over" THEN SourceOver(s, d) ELSE DestinationOut(s, d)

\* Whether the centre of pixel p lies within width/2 of the segment a-b
\* (a line stroked with lineCap 'round': the segment thickened by width/2,
\* a disc of diameter width when a = b).  Coordinates are doubled to stay
\* in the integers: the centre of pixel <<i, j>> is <<2i+1, 2j+1>>.
Covered(p, a, b, width) ==
    LET cx == 2 * p[1] + 1   cy == 2 * p[2] + 1
        ax == 2 * a[1]       ay == 2 * a[2]
        bx == 2 * b[1]       by == 2 * b[2]
        dx == bx - ax        dy == by - ay
        len2 == dx * dx + dy * dy
        t == (cx - ax) * dx + (cy - ay) * dy
        da2 == (cx - ax) * (cx - ax) + (cy - ay) * (cy - ay)
        db2 == (cx - bx) * (cx - bx) + (cy - by) * (cy - by)
        cross == (cx - ax) * dy - (cy - ay) * dx
    IN  IF len2 = 0 \/ t <= 0 THEN da2 <= width * width
        ELSE IF t >= len2 THEN db2 <= width * width
        ELSE cross * cross <= width * width * len2

\* a point one of whose coordinates is NaN (the tuple of its finite coordinates)
NaNPoint == <<>>

\* lineTo(x, y).  A non-finite coordinate: return.  A path with no subpath:
\* "ensure there is a subpath for (x, y)", which leaves a subpath of that
\* one point; implementations that keep zero-length lines add the line too.
LineTo(pth, pt, eng) ==
    IF pt = NaNPoint THEN pth
    ELSE IF pth = <<>> THEN (IF eng = "standard" THEN <<pt>> ELSE <<pt, pt>>)
    ELSE <<pth[Len(pth)], pt>>

\* moveTo(x, y) after beginPath()
MoveTo(pt) == IF pt = NaNPoint THEN <<>> ELSE <<pt>>

\* stroke(): trace the path.  The standard prunes zero-length line segments
\* and then removes subpaths of a single point, so they paint nothing;
\* an implementation that keeps a zero-length line paints its round caps.
Stroke(data, pth, width, gco, style, eng) ==
    IF Len(pth) < 2 THEN data
    ELSE IF pth[1] = pth[2] /\ eng = "standard" THEN data
    ELSE [p \in DOMAIN data |->
            IF Covered(p, pth[1], pth[2], width)
            THEN Composite(gco, style, data[p]) ELSE data[p]]

\* toDataURL(): the PNG encoding of the bitmap; a bitmap with no pixels
\* encodes as the string "data:,"
ToDataURL(dim, data) ==
    IF dim[1] = 0 \/ dim[2] = 0 THEN [url |-> "data:,"]
    ELSE [url |-> "data:image/png", width |-> dim[1], height |-> dim[2],
          pixels |-> data]

\* parseInt of a string of decimal digits
RECURSIVE ParseInt(_)
ParseInt(digits) ==
    IF digits = <<>> THEN 0
    ELSE 10 * ParseInt(SubSeq(digits, 1, Len(digits) - 1)) + digits[Len(digits)]

-----------------------------------------------------------------------------
(* Initial state: the page as loaded, before any event *)

Init ==
    /\ tool = "brush"
    /\ brushSize = InitialBrushSize
    /\ isDrawing = FALSE
    /\ imageLoaded = FALSE
    /\ hasResult = FALSE
    /\ imgDim = <<DefaultCanvasWidth, DefaultCanvasHeight>>
    /\ maskDim = <<DefaultCanvasWidth, DefaultCanvasHeight>>
    /\ resultDim = <<DefaultCanvasWidth, DefaultCanvasHeight>>
    /\ imgData = Blank(imgDim)
    /\ maskData = Blank(maskDim)
    /\ resultData = Blank(resultDim)
    /\ path = <<>>
    /\ engine \in {"standard", "capped"}
    /\ loader = FALSE
    /\ resultShown = FALSE
    /\ maskOpacity = 1
    /\ reading = 0
    /\ decoding = 0
    /\ inFlight = 0
    /\ fresh = 0
    /\ out = NoOutput

-----------------------------------------------------------------------------
(* Tool and brush controls *)

setTool(toolName) ==
    /\ tool' = toolName
    /\ out' = NoOutput
    /\ UNCHANGED <<brushSize, isDrawing, imageLoaded, hasResult, imgDim, maskDim,
                   resultDim, imgData, maskData, resultData, path, engine, loader,
                   resultShown, maskOpacity, reading, decoding, inFlight,
                   fresh>>

\* the 'input' listener of els.brushSizeInput
brushSizeInput(value) ==
    /\ brushSize' = ParseInt(value)
    /\ out' = NoOutput
    /\ UNCHANGED <<tool, isDrawing, imageLoaded, hasResult, imgDim, maskDim,
                   resultDim, imgData, maskData, resultData, path, engine, loader,
                   resultShown, maskOpacity, reading, decoding, inFlight, fresh>>

-----------------------------------------------------------------------------
(* Image handling *)

\* h * ratio with ratio = maxWidth / w, as the fraction <<numerator, denominator>>
\* (exact in double arithmetic for the widths of Files, powers of two)
ScaledHeight(w, h) == <<h * maxWidth, w>>

\* The conversion of the canvas width/height setter (WebIDL unsigned long):
\* a non-negative fraction is truncated to an integer
ToUnsignedLong(q) == q[1] \div q[2]

\* <<finalW, finalH>> computed by img.onload, finalH as a fraction
FinalSize(w, h) ==
    IF w > maxWidth THEN <<maxWidth, ScaledHeight(w, h)>> ELSE <<w, <<h, 1>>>>

\* resizeCanvases with els.resultCanvas left out of the list
resizeCanvasesSkipResult(w, h) ==
    LET dim == <<w, ToUnsignedLong(h)>>
    IN  /\ imgDim' = dim
        /\ maskDim' = dim
        /\ UNCHANGED <<resultDim, resultData>>
        /\ path' = <<>>

\* resizeCanvases(w, h): sets width and height of the three canvases.  Setting
\* a canvas dimension resets its bitmap to transparent black and its context
\* to the default state, current path included.
resizeCanvases(w, h) ==
    LET dim == <<w, ToUnsignedLong(h)>>
    IN  /\ imgDim' = dim
        /\ maskDim' = dim
        /\ resultDim' = dim
        /\ resultData' = Blank(dim)
        /\ path' = <<>>

\* clearMask(), applied to the mask bitmap m
clearMask(m) == [p \in DOMAIN m |-> Transparent]

\* handleImageUpload: the 'change' handler starts reading the chosen file
handleImageUpload ==
    /\ reading + decoding < MaxUploads
    /\ reading' = reading + 1
    /\ out' = NoOutput
    /\ UNCHANGED <<tool, brushSize, isDrawing, imageLoaded, hasResult, imgDim,
                   maskDim, resultDim, imgData, maskData, resultData, path, engine,
                   loader, resultShown, maskOpacity, decoding, inFlight,
                   fresh>>

\* reader.onload: creates the Image and sets its src
readerOnload ==
    /\ reading > 0
    /\ reading' = reading - 1
    /\ decoding' = decoding + 1
    /\ out' = NoOutput
    /\ UNCHANGED <<tool, brushSize, isDrawing, imageLoaded, hasResult, imgDim,
                   maskDim, resultDim, imgData, maskData, resultData, path, engine,
                   loader, resultShown, maskOpacity, inFlight,
                   fresh>>

\* img.onload without the line state.hasResult = false
imgOnloadKeepsResult(f) ==
    LET final == FinalSize(f.w, f.h)
        dim == <<final[1], ToUnsignedLong(final[2])>>
    IN  /\ decoding > 0
        /\ decoding' = decoding - 1
        /\ resizeCanvases(final[1], final[2])
        /\ imgData' = [p \in Tracked(imgDim') |->
                          SourceOver(Decoded(f.seed, dim)[p], Blank(imgDim')[p])]
        /\ imageLoaded' = TRUE
        /\ resultShown' = FALSE
        /\ maskData' = clearMask(Blank(maskDim'))
        /\ fresh' = 0
        /\ out' = NoOutput
        /\ UNCHANGED <<tool, brushSize, isDrawing, hasResult, engine, loader,
                       maskOpacity, reading, inFlight>>

\* img.onload for file f (nothing reads the file before this handler, so the
\* file is drawn from Files here)
imgOnload(f) ==
    LET final == FinalSize(f.w, f.h)
        dim == <<final[1], ToUnsignedLong(final[2])>>
    IN  /\ decoding > 0
        /\ decoding' = decoding - 1
        /\ resizeCanvases(final[1], final[2])
        /\ imgData' = [p \in Tracked(imgDim') |->
                          SourceOver(Decoded(f.seed, dim)[p], Blank(imgDim')[p])]
        /\ imageLoaded' = TRUE
        /\ hasResult' = FALSE
        /\ resultShown' = FALSE
        /\ maskData' = clearMask(Blank(maskDim'))
        /\ fresh' = 0
        /\ out' = NoOutput
        /\ UNCHANGED <<tool, brushSize, isDrawing, engine, loader, maskOpacity,
                       reading, inFlight>>

-----------------------------------------------------------------------------
(* Drawing logic *)

\* getBoundingClientRect() of the mask canvas: <<left, top, width, height>>;
\* the canvas is laid out at its intrinsic size
BoundingRect == <<RectLeft, RectTop, maskDim[1], maskDim[2]>>

\* the mouse event at pointer offset o from the canvas corner: <<clientX, clientY>>
MouseEvent(o) == <<RectLeft + o[1], RectTop + o[2]>>

\* whether the event lies on the mask canvas (mousedown is listened for there)
OnMaskCanvas(e) ==
    /\ BoundingRect[1] <= e[1] /\ e[1] < BoundingRect[1] + BoundingRect[3]
    /\ BoundingRect[2] <= e[2] /\ e[2] < BoundingRect[2] + BoundingRect[4]

\* <<x, y>> of paint(e): (client - rect origin) * (canvas size / rect size);
\* a rect of size 0 gives 0/0 = NaN
Mapped(e) ==
    IF BoundingRect[3] = 0 \/ BoundingRect[4] = 0 THEN NaNPoint
    ELSE << ((e[1] - BoundingRect[1]) * maskDim[1]) \div BoundingRect[3],
            ((e[2] - BoundingRect[2]) * maskDim[2]) \div BoundingRect[4] >>

\* the eraser branch taking the brush's composite operation
CompositeOpAlwaysOver(t) == "source-over"

\* globalCompositeOperation and strokeStyle chosen for the tool
CompositeOp(t) == IF t = "brush" THEN "source-over" ELSE "destination-out"
StrokeStyle(t) == IF t = "brush" THEN BrushColor ELSE <<0, 0, 0, 255>>

\* paint(e): lineTo, stroke, beginPath, moveTo
paint(e) ==
    LET pt == Mapped(e)
    IN  /\ maskData' = Stroke(maskData, LineTo(path, pt, engine), brushSize,
                              CompositeOp(tool), StrokeStyle(tool), engine)
        /\ path' = MoveTo(pt)

\* startDraw without the imageLoaded test
startDrawUnguarded(e) ==
    /\ OnMaskCanvas(e)
    /\ isDrawing' = TRUE
    /\ paint(e)
    /\ out' = NoOutput
    /\ UNCHANGED <<tool, brushSize, imageLoaded, hasResult, imgDim, maskDim,
                   resultDim, imgData, resultData, engine, loader, resultShown,
                   maskOpacity, reading, decoding, inFlight,
                   fresh>>

\* startDraw: 'mousedown' on the mask canvas
startDraw(e) ==
    /\ OnMaskCanvas(e)
    /\ IF ~imageLoaded
       THEN UNCHANGED <<isDrawing, maskData, path>>
       ELSE /\ isDrawing' = TRUE
            /\ paint(e)
    /\ out' = NoOutput
    /\ UNCHANGED <<tool, brushSize, imageLoaded, hasResult, imgDim, maskDim,
                   resultDim, imgData, resultData, engine, loader, resultShown,
                   maskOpacity, reading, decoding, inFlight,
                   fresh>>

\* stopDraw without els.ctxMask.beginPath()
stopDrawKeepsPath(e) ==
    /\ isDrawing' = FALSE
    /\ out' = NoOutput
    /\ UNCHANGED <<tool, brushSize, imageLoaded, hasResult, imgDim, maskDim,
                   resultDim, imgData, maskData, resultData, path, engine, loader,
                   resultShown, maskOpacity, reading, decoding, inFlight,
                   fresh>>

\* stopDraw: 'mouseup' anywhere in the window
stopDraw(e) ==
    /\ isDrawing' = FALSE
    /\ path' = <<>>
    /\ out' = NoOutput
    /\ UNCHANGED <<tool, brushSize, imageLoaded, hasResult, imgDim, maskDim,
                   resultDim, imgData, maskData, resultData, engine, loader,
                   resultShown, maskOpacity, reading, decoding, inFlight,
                   fresh>>

\* draw without the isDrawing test
drawUnguarded(e) ==
    /\ paint(e)
    /\ out' = NoOutput
    /\ UNCHANGED <<tool, brushSize, isDrawing, imageLoaded, hasResult, imgDim,
                   maskDim, resultDim, imgData, resultData, engine, loader,
                   resultShown, maskOpacity, reading, decoding, inFlight,
                   fresh>>

\* draw: 'mousemove' anywhere in the window
draw(e) ==
    /\ IF ~isDrawing
       THEN UNCHANGED <<maskData, path>>
       ELSE paint(e)
    /\ out' = NoOutput
    /\ UNCHANGED <<tool, brushSize, isDrawing, imageLoaded, hasResult, imgDim,
                   maskDim, resultDim, imgData, resultData, engine, loader,
                   resultShown, maskOpacity, reading, decoding, inFlight,
                   fresh>>

\* clearMask also dropping the result
clearMaskClickInvalidates ==
    /\ maskData' = clearMask(maskData)
    /\ hasResult' = FALSE
    /\ out' = NoOutput
    /\ UNCHANGED <<tool, brushSize, isDrawing, imageLoaded, imgDim, maskDim,
                   resultDim, imgData, resultData, path, engine, loader,
                   resultShown, maskOpacity, reading, decoding, inFlight,
                   fresh>>

\* the 'click' handler of clearMaskBtn
clearMaskClick ==
    /\ maskData' = clearMask(maskData)
    /\ out' = NoOutput
    /\ UNCHANGED <<tool, brushSize, isDrawing, imageLoaded, hasResult, imgDim,
                   maskDim, resultDim, imgData, resultData, path, engine, loader,
                   resultShown, maskOpacity, reading, decoding, inFlight, fresh>>

-----------------------------------------------------------------------------
(* Generation *)

\* the shifts taken modulo 256
InpaintMod256(r, m) ==
    IF m[4] > 0
    THEN <<(r[1] + ShiftR) % 256, (r[2] + ShiftG) % 256, Bluish, r[4]>>
    ELSE r

\* the simulated inpainting of one pixel: r is the result pixel (the cloned
\* image pixel), m the mask pixel at the same index
Inpaint(r, m) ==
    IF m[4] > 0
    THEN <<(r[1] + ShiftR) % Modulus, (r[2] + ShiftG) % Modulus, Bluish, r[4]>>
    ELSE r

\* ctxResult.drawImage(els.imgCanvas, 0, 0) on the cleared result canvas
CloneOriginal(rdim, img) ==
    [p \in Tracked(rdim) |->
        IF p \in DOMAIN img THEN SourceOver(img[p], Transparent) ELSE Transparent]

\* the loop never entering its if
ApplyMaskIgnoresMask(res, mask) == res

\* the loop over the mask's image data, then putImageData
ApplyMask(res, mask) ==
    [p \in DOMAIN res |-> IF p \in DOMAIN mask THEN Inpaint(res[p], mask[p]) ELSE res[p]]

\* drawImage throws InvalidStateError for a source canvas with a zero
\* dimension, getImageData throws IndexSizeError for a zero-sized rectangle
TryThrows == imgDim[1] = 0 \/ imgDim[2] = 0 \/ maskDim[1] = 0 \/ maskDim[2] = 0
             \/ resultDim[1] = 0 \/ resultDim[2] = 0

\* runGeneration showing the loader before it validates
runGenerationLoaderFirst(prompt) ==
    IF ~imageLoaded \/ prompt = <<>>
    THEN /\ loader' = TRUE
         /\ out' = IF ~imageLoaded THEN AlertNoImage ELSE AlertNoPrompt
         /\ UNCHANGED <<tool, brushSize, isDrawing, imageLoaded, hasResult, imgDim,
                        maskDim, resultDim, imgData, maskData, resultData, path,
                        engine, resultShown, maskOpacity, reading, decoding,
                        inFlight,
                   fresh>>
    ELSE /\ inFlight < MaxInFlight
         /\ loader' = TRUE
         /\ inFlight' = inFlight + 1
         /\ fresh' = fresh + 1
         /\ out' = NoOutput
         /\ UNCHANGED <<tool, brushSize, isDrawing, imageLoaded, hasResult, imgDim,
                        maskDim, resultDim, imgData, maskData, resultData, path,
                        engine, resultShown, maskOpacity, reading, decoding>>

\* runGeneration returning while the loader is displayed (an in-flight gate)
runGenerationGated(prompt) ==
    IF ~imageLoaded
    THEN /\ out' = AlertNoImage
         /\ UNCHANGED progVars
    ELSE IF prompt = <<>>
    THEN /\ out' = AlertNoPrompt
         /\ UNCHANGED progVars
    ELSE IF loader
    THEN /\ out' = NoOutput
         /\ UNCHANGED progVars
    ELSE /\ inFlight < MaxInFlight
         /\ loader' = TRUE
         /\ inFlight' = inFlight + 1
         /\ fresh' = fresh + 1
         /\ out' = NoOutput
         /\ UNCHANGED <<tool, brushSize, isDrawing, imageLoaded, hasResult, imgDim,
                        maskDim, resultDim, imgData, maskData, resultData, path,
                        engine, resultShown, maskOpacity, reading, decoding>>

\* runGeneration without the imageLoaded test
runGenerationNoImageCheck(prompt) ==
    IF prompt = <<>>
    THEN /\ out' = AlertNoPrompt
         /\ UNCHANGED progVars
    ELSE /\ inFlight < MaxInFlight
         /\ loader' = TRUE
         /\ inFlight' = inFlight + 1
         /\ fresh' = fresh + 1
         /\ out' = NoOutput
         /\ UNCHANGED <<tool, brushSize, isDrawing, imageLoaded, hasResult, imgDim,
                        maskDim, resultDim, imgData, maskData, resultData, path,
                        engine, resultShown, maskOpacity, reading, decoding>>

\* runGeneration up to the await: validation, loader shown, timer started
runGeneration(prompt) ==
    IF ~imageLoaded
    THEN /\ out' = AlertNoImage
         /\ UNCHANGED progVars
    ELSE IF prompt = <<>>
    THEN /\ out' = AlertNoPrompt
         /\ UNCHANGED progVars
    ELSE /\ inFlight < MaxInFlight
         /\ loader' = TRUE
         /\ inFlight' = inFlight + 1
         /\ fresh' = fresh + 1
         /\ out' = NoOutput
         /\ UNCHANGED <<tool, brushSize, isDrawing, imageLoaded, hasResult, imgDim,
                        maskDim, resultDim, imgData, maskData, resultData, path,
                        engine, resultShown, maskOpacity, reading, decoding>>

\* the finally block missing: the loader stays displayed
generationResumeKeepsLoader(allocFails) ==
    /\ inFlight > 0
    /\ inFlight' = inFlight - 1
    /\ fresh' = IF fresh < inFlight THEN fresh ELSE fresh - 1
    /\ IF TryThrows
       THEN /\ resultData' = Blank(resultDim)
            /\ out' = AlertFailed
            /\ UNCHANGED <<hasResult, resultShown, maskOpacity>>
       ELSE IF allocFails
       THEN /\ resultData' = CloneOriginal(resultDim, imgData)
            /\ out' = AlertFailed
            /\ UNCHANGED <<hasResult, resultShown, maskOpacity>>
       ELSE /\ resultData' = ApplyMask(CloneOriginal(resultDim, imgData), maskData)
            /\ resultShown' = TRUE
            /\ hasResult' = TRUE
            /\ maskOpacity' = 0
            /\ out' = NoOutput
    /\ UNCHANGED <<tool, brushSize, isDrawing, imageLoaded, imgDim, maskDim,
                   resultDim, imgData, maskData, path, engine, reading, decoding,
                   loader>>

\* a successful generation clearing the mask instead of hiding it
generationResumeClearsMask(allocFails) ==
    /\ inFlight > 0
    /\ inFlight' = inFlight - 1
    /\ fresh' = IF fresh < inFlight THEN fresh ELSE fresh - 1
    /\ IF TryThrows
       THEN /\ resultData' = Blank(resultDim)
            /\ out' = AlertFailed
            /\ UNCHANGED <<hasResult, resultShown, maskOpacity, maskData>>
       ELSE IF allocFails
       THEN /\ resultData' = CloneOriginal(resultDim, imgData)
            /\ out' = AlertFailed
            /\ UNCHANGED <<hasResult, resultShown, maskOpacity, maskData>>
       ELSE /\ resultData' = ApplyMask(CloneOriginal(resultDim, imgData), maskData)
            /\ resultShown' = TRUE
            /\ hasResult' = TRUE
            /\ maskData' = clearMask(maskData)
            /\ UNCHANGED maskOpacity
            /\ out' = NoOutput
    /\ loader' = FALSE
    /\ UNCHANGED <<tool, brushSize, isDrawing, imageLoaded, imgDim, maskDim,
                   resultDim, imgData, path, engine, reading, decoding>>

\* runGeneration after the await: the rest of the try block, catch, finally.
\* Timers of equal delay fire in the order they were set, so the call that
\* resumes is the oldest one.  drawImage throws on a zero-sized canvas (after
\* clearRect); allocFails: getImageData cannot allocate its ImageData and
\* throws (after clearRect and drawImage).
generationResume(allocFails) ==
    /\ inFlight > 0
    /\ inFlight' = inFlight - 1
    /\ fresh' = IF fresh < inFlight THEN fresh ELSE fresh - 1
    /\ IF TryThrows
       THEN /\ resultData' = Blank(resultDim)
            /\ out' = AlertFailed
            /\ UNCHANGED <<hasResult, resultShown, maskOpacity>>
       ELSE IF allocFails
       THEN /\ resultData' = CloneOriginal(resultDim, imgData)
            /\ out' = AlertFailed
            /\ UNCHANGED <<hasResult, resultShown, maskOpacity>>
       ELSE /\ resultData' = ApplyMask(CloneOriginal(resultDim, imgData), maskData)
            /\ resultShown' = TRUE
            /\ hasResult' = TRUE
            /\ maskOpacity' = 0
            /\ out' = NoOutput
    /\ loader' = FALSE
    /\ UNCHANGED <<tool, brushSize, isDrawing, imageLoaded, imgDim, maskDim,
                   resultDim, imgData, maskData, path, engine, reading, decoding>>

-----------------------------------------------------------------------------
(* Export *)

\* exportImage without the hasResult branch
exportImageOriginalOnly ==
    /\ IF ~imageLoaded
       THEN out' = NoOutput
       ELSE out' = [kind |-> "download", name |-> "vivopaint-export.png",
                    href |-> ToDataURL(imgDim, imgData)]
    /\ UNCHANGED progVars

exportImage ==
    /\ IF ~imageLoaded
       THEN out' = NoOutput
       ELSE out' = [kind |-> "download", name |-> "vivopaint-export.png",
                    href |-> IF hasResult THEN ToDataURL(resultDim, resultData)
                                          ELSE ToDataURL(imgDim, imgData)]
    /\ UNCHANGED progVars

-----------------------------------------------------------------------------

Next ==
    \/ \E t \in {"brush", "eraser"} : setTool(t)
    \/ \E v \in SliderValues : brushSizeInput(v)
    \/ handleImageUpload
    \/ readerOnload
    \/ \E f \in Files : imgOnload(f)
    \/ \E o \in PointerOffsets : startDraw(MouseEvent(o))
    \/ \E o \in PointerOffsets : draw(MouseEvent(o))
    \/ \E o \in PointerOffsets : stopDraw(MouseEvent(o))
    \/ clearMaskClick
    \/ \E prompt \in Prompts : runGeneration(prompt)
    \/ \E allocFails \in BOOLEAN : generationResume(allocFails)
    \/ exportImage

Spec == Init /\ [][Next]_vars

\* The delay timer of a suspended runGeneration fires: the event loop runs a
\* timer callback that stays ready.
FairSpec == Spec /\ WF_vars(\E allocFails \in BOOLEAN : generationResume(allocFails))

-----------------------------------------------------------------------------
(* Steps, named by what they do to the program's variables *)

\* an upload completes: img.onload has run
UploadCompletes == decoding' = decoding - 1

\* a suspended runGeneration resumes and finishes, with or without a throw
GenerationEnds == inFlight' = inFlight - 1
GenerationSucceeds == GenerationEnds /\ out' # AlertFailed

\* what every mouse handler leaves alone (a quick test, made before a step is
\* compared with a handler in full)
MouseFrame ==
    /\ out' = NoOutput
    /\ UNCHANGED <<tool, brushSize, imageLoaded, hasResult, loader, inFlight,
                   reading, decoding>>

\* what the clear, generate and export buttons' handlers leave alone (a
\* quick test of the same kind)
ButtonFrame == UNCHANGED <<tool, brushSize, isDrawing, path, reading, decoding>>

\* one of the stroke handlers runs
StartDrawStep == \E o \in PointerOffsets : startDraw(MouseEvent(o))
DrawStep == \E o \in PointerOffsets : draw(MouseEvent(o))
StopDrawStep == \E o \in PointerOffsets : stopDraw(MouseEvent(o))

Alpha(px) == px[4]
MaskIsClear(m) == \A p \in DOMAIN m : Alpha(m[p]) = 0
Selected(m) == { p \in DOMAIN m : Alpha(m[p]) > 0 }

-----------------------------------------------------------------------------
(* C1 *)

\* C1: when an image upload completes (img.onload has run), hasResult is
\* false and every pixel of the mask has alpha 0, whatever hasResult, the
\* mask, the tool, the brush size and the stroke state were before.
C1_UploadResets ==
    [][UploadCompletes => (hasResult' = FALSE /\ MaskIsClear(maskData'))]_vars

\* an upload has completed after a successful generation (the mask canvas was
\* faded out, so hasResult had been true), in the middle of an eraser stroke
C1_Witness ==
    /\ imageLoaded /\ ~hasResult /\ maskOpacity = 0
    /\ MaskIsClear(maskData) /\ isDrawing /\ tool = "eraser" /\ brushSize = 2

\* C2: in every reachable state the mask canvas and the result canvas have
\* the width and height of the image canvas (and so the same pixel positions).
C2_SameDimensions ==
    /\ maskDim = imgDim
    /\ resultDim = imgDim
    /\ DOMAIN maskData = DOMAIN imgData
    /\ DOMAIN resultData = DOMAIN imgData

\* a downscaled image is loaded and a generation has written the result
C2_Witness ==
    /\ imageLoaded /\ hasResult /\ imgDim = <<maxWidth, 1>>
    /\ Selected(maskData) # {}

\* round(q) of a non-negative fraction, halves rounded up (Math.round)
Round(q) == (2 * q[1] + q[2]) \div (2 * q[2])

\* C3: an image of original size (w, h) with w > 2048 gives an image canvas
\* of width 2048 and height round(h * 2048 / w); with w <= 2048 the canvas
\* keeps (w, h); the width never exceeds 2048 once an image is loaded.
C3_DownscaleRounds ==
    [][\A f \in Files : imgOnload(f) =>
          /\ imgDim' = IF f.w > maxWidth
                       THEN <<maxWidth, Round(<<f.h * maxWidth, f.w>>)>>
                       ELSE <<f.w, f.h>>
          /\ imgDim'[1] <= maxWidth]_vars

\* C4: a generate request with no image loaded, or with an empty prompt, is
\* aborted: no field of the session, no buffer and no loading indicator
\* changes and no generation becomes in flight; the user is shown a message.
C4_RejectedGenerateMutatesNothing ==
    [][\A prompt \in Prompts :
          (runGeneration(prompt) /\ (~imageLoaded \/ prompt = <<>>)) =>
              /\ UNCHANGED <<tool, brushSize, isDrawing, imageLoaded, hasResult>>
              /\ UNCHANGED <<imgDim, maskDim, resultDim, imgData, maskData, resultData>>
              /\ UNCHANGED <<loader, resultShown, maskOpacity, inFlight, path>>
              /\ out'.kind = "alert"]_vars

\* an empty prompt has been rejected with an image loaded, a result present
\* and a painted mask
C4_Witness ==
    /\ out = AlertNoPrompt /\ imageLoaded /\ hasResult
    /\ Selected(maskData) # {} /\ ~loader /\ inFlight = 0

\* C5: when a generation completes successfully, every result pixel whose
\* mask alpha is 0 equals the image pixel, and every result pixel whose mask
\* alpha is nonzero has R = (R + 50) mod 255, G = (G + 20) mod 255, B = 200
\* and the image pixel's alpha.
C5_CompositorTransform ==
    [][GenerationSucceeds =>
          \A p \in DOMAIN resultData' :
              IF Alpha(maskData'[p]) = 0
              THEN resultData'[p] = imgData'[p]
              ELSE /\ resultData'[p][1] = (imgData'[p][1] + 50) % 255
                   /\ resultData'[p][2] = (imgData'[p][2] + 20) % 255
                   /\ resultData'[p][3] = 200
                   /\ resultData'[p][4] = imgData'[p][4]]_vars

\* a result in which a masked pixel with R >= 205 and G >= 235 was shifted
\* and wrapped, next to an unmasked pixel left as in the image
C5_Witness ==
    /\ hasResult
    /\ \E p \in DOMAIN resultData :
          /\ Alpha(maskData[p]) > 0
          /\ imgData[p][1] >= 205 /\ imgData[p][2] >= 235
          /\ resultData[p][1] = (imgData[p][1] + 50) % 255
          /\ resultData[p][1] < imgData[p][1]
          /\ resultData[p][3] = 200
    /\ \E q \in DOMAIN resultData :
          Alpha(maskData[q]) = 0 /\ resultData[q] = imgData[q]

\* the pixels of an exported file
Exported(href) == IF href.url = "data:," THEN <<>> ELSE href.pixels

\* C6: an export with an image loaded downloads the result canvas if
\* hasResult and the image canvas otherwise; while no generation has ever
\* succeeded (the mask canvas was never faded out) that is the image canvas;
\* with no image loaded nothing is downloaded; an export changes no state.
C6_ExportChoosesBuffer ==
    /\ [](out.kind = "download" =>
            /\ imageLoaded
            /\ Exported(out.href) = IF hasResult THEN resultData ELSE imgData
            /\ maskOpacity = 1 => Exported(out.href) = imgData)
    /\ [][exportImage => UNCHANGED progVars]_vars

\* the result of a generation has been exported
C6_Witness ==
    /\ out.kind = "download" /\ hasResult
    /\ Exported(out.href) = resultData /\ resultData # imgData

\* the tracked pixels of the dot of diameter width centred at image point pt
Dot(pt, width) == { p \in DOMAIN maskData : Covered(p, pt, pt, width) }

\* C7: with an image loaded, a stroke-start at a point (then a stroke-end,
\* no movement between) paints the dot of diameter brushSize centred at that
\* point: selected with the brush, transparent with the eraser.  The paint
\* happens in the stroke-start; the stroke-end paints nothing.
C7_ClickPaintsDot ==
    [][\A o \in PointerOffsets :
          (startDraw(MouseEvent(o)) /\ imageLoaded /\ ~isDrawing) =>
              \A p \in Dot(Mapped(MouseEvent(o)), brushSize) :
                  IF tool = "brush" THEN Alpha(maskData'[p]) > 0
                                    ELSE Alpha(maskData'[p]) = 0]_vars

\* C8: a paint step with the eraser raises no mask pixel's alpha and a paint
\* step with the brush lowers none, also when the tool changes mid-stroke.
C8_MonotonicAlpha ==
    [][(MouseFrame /\ maskData' # maskData /\ (StartDrawStep \/ DrawStep)) =>
          /\ DOMAIN maskData' = DOMAIN maskData
          /\ tool = "eraser" =>
                \A p \in DOMAIN maskData : Alpha(maskData'[p]) <= Alpha(maskData[p])
          /\ tool = "brush" =>
                \A p \in DOMAIN maskData : Alpha(maskData'[p]) >= Alpha(maskData[p])]_vars

\* in a stroke, after a switch to the eraser, part of the painted mask has
\* been erased and the rest is still selected
C8_Witness ==
    /\ isDrawing /\ tool = "eraser" /\ path # <<>>
    /\ DOMAIN maskData = SamplePixels
    /\ Alpha(maskData[<<0, 0>>]) = 0
    /\ Alpha(maskData[<<1, 1>>]) = 255

\* C9: while no image is loaded, stroke-start, pointer-move and stroke-end
\* leave isDrawing false and the mask unchanged; isDrawing turns true only
\* with an image loaded.
C9_NoImageNoDrawing ==
    /\ [](~imageLoaded => ~isDrawing)
    /\ [][(~imageLoaded /\ (StartDrawStep \/ DrawStep \/ StopDrawStep)) =>
             (~isDrawing' /\ maskData' = maskData /\ path' = path)]_vars
    /\ [][(~isDrawing /\ isDrawing') => imageLoaded]_vars

\* the stroke engine is Drawing, entered by a stroke-start at the canvas
\* corner with an image loaded
C9_Witness ==
    /\ isDrawing /\ imageLoaded /\ path = << <<0, 0>> >>
    /\ reading = 0 /\ decoding = 0

\* C10: a stroke-end leaves isDrawing false, from any state and for any
\* pointer position; while isDrawing is false a pointer-move leaves the mask
\* unchanged, and only a stroke-start on the mask canvas makes it true again.
C10_StrokeEndIdles ==
    /\ [][StopDrawStep => ~isDrawing']_vars
    /\ [][(~isDrawing /\ DrawStep) => (maskData' = maskData /\ ~isDrawing')]_vars
    /\ [][(~isDrawing /\ isDrawing') =>
             \E o \in PointerOffsets :
                 startDraw(MouseEvent(o)) /\ OnMaskCanvas(MouseEvent(o))]_vars

\* a stroke that painted has ended: Idle, with the painted mask kept
C10_Witness ==
    /\ ~isDrawing /\ path = <<>> /\ imageLoaded
    /\ Selected(maskData) # {} /\ Selected(maskData) # DOMAIN maskData

\* a started generation reaches its catch block
GenerationFails == GenerationEnds /\ out' = AlertFailed

\* C11: when a started generation fails inside its try block, the loader is
\* hidden afterwards, hasResult has the value it had before, and the result
\* canvas holds exactly the pixels it held before: no cleared or partly
\* written result is left behind.
C11_FailureCommitsNothing ==
    [][GenerationFails =>
          (~loader' /\ hasResult' = hasResult /\ resultData' = resultData)]_vars

\* C12: a started generation is removed only by its own resumption (no
\* upload, stroke, clear, export or further generate cancels it), every
\* started generation is eventually resumed when its timer fires (the timers
\* fire in the order they were set, so as long as some generation is in
\* flight resumptions keep happening and each one's turn comes), and with
\* none in flight the loader is hidden.
C12_RunsToCompletion ==
    /\ [][inFlight' < inFlight =>
             /\ GenerationEnds
             /\ \E allocFails \in BOOLEAN : generationResume(allocFails)]_vars
    /\ [](inFlight = 0 => ~loader)
    /\ []<>(inFlight = 0) \/ []<><<GenerationEnds>>_vars

\* a generation has run to success and none is left in flight, the loader
\* hidden, while the user is in the middle of a stroke
C12_Witness ==
    /\ inFlight = 0 /\ ~loader
    /\ hasResult /\ resultShown /\ maskOpacity = 0
    /\ isDrawing /\ path # <<>>

\* the pixels of m that a paint of tool t covering the set cov leaves:
\* inside cov selected (brush) or transparent (eraser), outside as before
Painted(m, m2, cov, t) ==
    /\ DOMAIN m2 = DOMAIN m
    /\ \A p \in DOMAIN m :
          IF p \in cov
          THEN IF t = "brush"
               THEN Alpha(m2[p]) > 0 /\ Alpha(m2[p]) >= Alpha(m[p])
               ELSE Alpha(m2[p]) = 0
          ELSE m2[p] = m[p]

\* C13: in Drawing, a pointer-move to a new point paints exactly the segment
\* from the last recorded point to the new point, with the width and tool
\* current at that move, and records the new point; the first paint of a
\* stroke begun in Idle, and the first paint after an upload during a
\* stroke, change no pixel outside the dot at their own point, so they draw
\* no segment from a point recorded earlier.
C13_SegmentsIndependent ==
    /\ [][\A o \in PointerOffsets :
             (/\ isDrawing /\ isDrawing' /\ Len(path) = 1
              /\ MouseFrame
              /\ Mapped(MouseEvent(o)) # NaNPoint
              /\ Mapped(MouseEvent(o)) # path[1]
              /\ draw(MouseEvent(o))) =>
                 /\ Painted(maskData, maskData',
                            { p \in DOMAIN maskData :
                                Covered(p, path[1], Mapped(MouseEvent(o)), brushSize) },
                            tool)
                 /\ path' = << Mapped(MouseEvent(o)) >>]_vars
    /\ [][\A o \in PointerOffsets :
             \/ maskData' = maskData
             \/ ~(/\ MouseFrame /\ isDrawing'
                  /\ \/ ~isDrawing /\ startDraw(MouseEvent(o))
                     \/ isDrawing /\ path = <<>> /\ draw(MouseEvent(o)))
             \/ \A p \in DOMAIN maskData :
                   maskData'[p] # maskData[p] =>
                       p \in Dot(Mapped(MouseEvent(o)), brushSize)]_vars

\* a segment was painted from the canvas corner to a point left of the
\* canvas with the thinnest brush: only the corner pixel is selected, which
\* no dot of that engine paints
C13_Witness ==
    /\ engine = "standard" /\ isDrawing /\ brushSize = 2 /\ tool = "brush"
    /\ path = << <<-20, 1>> >>
    /\ DOMAIN maskData = SamplePixels
    /\ Selected(maskData) = { <<0, 0>> }

\* C14: in every reachable state with a generation in flight the loader is
\* displayed, also when a second generation was requested while an earlier
\* one was in flight.
C14_LoaderWhileInFlight == inFlight > 0 => loader

\* C15: while a generation is in flight the handlers act as they do with
\* none in flight: a generate with a prompt starts one more generation, a
\* stroke-start in Idle enters Drawing, a pointer-move in Drawing records its
\* point, clear mask clears, an upload starts reading its file and an export
\* downloads; no handler tests for a generation in flight.
C15_NoInFlightGate ==
    [][inFlight > 0 =>
          /\ \A prompt \in Prompts :
                (prompt # <<>> /\ ButtonFrame /\ runGeneration(prompt)) =>
                    (inFlight' = inFlight + 1 /\ loader')
          /\ (MouseFrame /\ maskDim' = maskDim) =>
                \A o \in PointerOffsets :
                    (startDraw(MouseEvent(o)) \/ (isDrawing /\ draw(MouseEvent(o)))) =>
                        (isDrawing' /\ path' = MoveTo(Mapped(MouseEvent(o))))
          /\ (ButtonFrame /\ clearMaskClick) => MaskIsClear(maskData')
          /\ handleImageUpload => reading' = reading + 1
          /\ (ButtonFrame /\ exportImage) => out'.kind = "download"]_vars

\* two generations are in flight at once, during a stroke that has painted
C15_Witness ==
    /\ inFlight = 2 /\ loader
    /\ isDrawing /\ Selected(maskData) # {}

\* C16: a generation that ends, in success or in failure, leaves the image
\* and mask canvases' pixels and sizes, imageLoaded, the tool and the brush
\* width as they were; a success only fades the mask canvas out.
C16_GenerationKeepsBuffers ==
    [][GenerationEnds =>
          /\ UNCHANGED <<imgData, imgDim, maskData, maskDim, imageLoaded, tool,
                         brushSize>>
          /\ GenerationSucceeds => maskOpacity' = 0]_vars

\* after a generation the mask canvas is faded out and still holds the
\* whole painted selection
C16_Witness ==
    /\ hasResult /\ maskOpacity = 0 /\ inFlight = 0
    /\ DOMAIN maskData = SamplePixels
    /\ Selected(maskData) = SamplePixels

\* C17: hasResult and the result canvas' pixels change only in a step that
\* completes an upload or ends a generation: strokes of either tool, clear
\* mask, tool and brush size changes (and exports) leave both as they are.
C17_ResultKeptAcrossEdits ==
    [][(hasResult' # hasResult \/ resultData' # resultData) =>
          (UploadCompletes \/ GenerationEnds)]_vars

\* a result with inpainted pixels is still there after the mask it was made
\* from has been cleared and the tool and brush size changed
C17_Witness ==
    /\ hasResult /\ inFlight = 0
    /\ resultData # imgData
    /\ DOMAIN maskData = SamplePixels /\ MaskIsClear(maskData)
    /\ tool = "eraser" /\ brushSize = 2

\* C18: hasResult turns true, and the result canvas is shown, only by the
\* success of a generation requested after the most recent completed upload
\* (the generation resumed is the oldest in flight; it was requested after
\* that upload exactly if all those in flight were).
C18_OnlyFreshGenerationSetsResult ==
    [][((~hasResult /\ hasResult') \/ (~resultShown /\ resultShown')) =>
          (GenerationSucceeds /\ fresh = inFlight)]_vars

\* the compositor transform of an image and a mask
Transform(img, msk) ==
    [p \in DOMAIN img |->
        IF Alpha(msk[p]) = 0 THEN img[p]
        ELSE <<(img[p][1] + 50) % 255, (img[p][2] + 20) % 255, 200, img[p][4]>>]

\* C19: the step in which a generation succeeds writes to the result canvas
\* the transform of the image and mask canvases as they are in that step,
\* whatever they were when the generation was requested and whatever an
\* overlapping generation wrote before.
C19_ResultFromCurrentBuffers ==
    [][GenerationSucceeds => resultData' = Transform(imgData, maskData)]_vars

\* a result made from an image uploaded, and a mask painted, after the
\* generations were requested: one of them has succeeded and one requested
\* before the upload is still in flight
C19_Witness ==
    /\ hasResult /\ inFlight > 0 /\ fresh < inFlight
    /\ Selected(maskData) # {}
    /\ resultData = Transform(imgData, maskData)
    /\ resultData # imgData

\* C20: hasResult implies imageLoaded, isDrawing implies imageLoaded, and
\* imageLoaded, once true, stays true in every step.
C20_ImageLoadedUnderlies ==
    /\ [](hasResult => imageLoaded)
    /\ [](isDrawing => imageLoaded)
    /\ [][imageLoaded => imageLoaded']_vars

\* a generation has just failed during a stroke, with a result present:
\* the image is still loaded
C20_Witness ==
    /\ out = AlertFailed /\ imageLoaded /\ hasResult /\ isDrawing
    /\ MaskIsClear(maskData)

====
